---- MODULE Spec2Model ----
(***************************************************************************)
(* Model of the extraction / normalisation core of src/main.py:            *)
(*   parse_item, parse_menu_from_data, extract_offers_from_data,           *)
(*   flatten_items_with_variants and the reconciliation step of            *)
(*   compare_offers.                                                       *)
(*                                                                         *)
(* JSON values are modelled by their shape at each position the code       *)
(* reads: a mapping ("dict"), a falsy or missing value, or a value of the  *)
(* wrong type ("bad") on which .get() / iteration raises.  Every function  *)
(* returns an outcome [exc, ret]: exc is the Python exception that left    *)
(* the function (NoExc when it returned), ret the returned value.          *)
(***************************************************************************)
EXTENDS Integers, Sequences, FiniteSets, TLC

VARIABLES
    pc,             \* position of the driver: "start", then one label per call made
    info,           \* parse_item: the raw item node handed in
    itemOut,        \* parse_item: its outcome
    data,           \* the raw document handed to both parsers
    menuOut,        \* outcome of parse_menu_from_data(data)
    offersOut,      \* outcome of extract_offers_from_data(data)
    items,          \* the caller's list of dish dicts (mutable objects)
    items0,         \* ghost: items as they were when the latest flatten call began
    flat_rows,      \* rows returned by the latest flatten call
    flat_first,     \* ghost: rows returned by the first flatten call
    restaurant_names, \* scrape_and_generate_excel: names read off items after flattening
    df_ref,         \* compare_offers: reference rows read from the upload
    scraped_offers, \* compare_offers: offers gathered from the fetches
    response        \* compare_offers: the JSON response

vars == <<pc, info, itemOut, data, menuOut, offersOut, items, items0,
          flat_rows, flat_first, restaurant_names, df_ref, scraped_offers, response>>

----------------------------------------------------------------------------
(* Python values *)

\* Python's None where the position otherwise holds a string.
None == "<None>"

\* An optional number: <<>> is None, <<v>> is the number v.
NoneF == <<>>
Some(v) == <<v>>

\* Exceptions.  All of them derive from Exception.
NoExc == "none"
AttributeError == "AttributeError"
TypeError == "TypeError"
KeyError == "KeyError"
ExceptionSubclasses == {AttributeError, TypeError, KeyError}

Return(v) == [exc |-> NoExc, ret |-> v]
Raise(e) == [exc |-> e, ret |-> <<>>]

\* Sequences over S of length lo..hi.
SeqsBetween(S, lo, hi) == UNION {[1..n -> S] : n \in lo..hi}

----------------------------------------------------------------------------
(* Raw price values.                                                       *)
(* A numeric raw value is held in tenths of the upstream minor unit, so    *)
(* that JSON numbers with a fractional part are representable:             *)
(* [t |-> "num", n |-> 1000] is the JSON number 100, n |-> 4 is 0.4.       *)
(* Parsed prices are held in hundredths of the currency unit, which is     *)
(* what round(x, 2) keeps: base_price 150 is 1.50.                         *)
(* "missing": key absent; "null": JSON null; "empty": the string "";       *)
(* "text": a non-empty non-numeric string such as "abc".                   *)

Num(n) == [t |-> "num", n |-> n]
Missing == [t |-> "missing", n |-> 0]
Null == [t |-> "null", n |-> 0]
EmptyStr == [t |-> "empty", n |-> 0]
Text == [t |-> "text", n |-> 0]

\* Python truthiness of a raw value.
Truthy(p) == (p.t = "num" /\ p.n # 0) \/ p.t = "text"

\* a or b
Or(a, b) == IF Truthy(a) THEN a ELSE b

IsNumeric(p) == p.t = "num"

\* Nearest integer to n / 10.  The numeric inputs of the model are never
\* exactly half way (n % 10 # 5): there the float representation decides.
RoundTenths(n) ==
    LET a == IF n < 0 THEN -n ELSE n
        q == (a + 5) \div 10
    IN IF n < 0 THEN -q ELSE q

\* int(x) of a number: truncation toward zero.
TruncTenths(n) ==
    IF n < 0 THEN -((-n) \div 10) ELSE n \div 10

\* round(x / 100, 2), as a count of hundredths; TypeError when x is not a number.
Div100Round2(p) ==
    IF IsNumeric(p) THEN Return(RoundTenths(p.n)) ELSE Raise(TypeError)

----------------------------------------------------------------------------
(* parse_item *)

\* line 52: round((info.get("price") or info.get("defaultPrice") or 0)/100, 2)
BasePrice(i) == Div100Round2(Or(Or(i.price, i.defaultPrice), Num(0)))

\* line 53: round(info.get("finalPrice", 0)/100, 2) if info.get("finalPrice") else None
FinalPrice(i) ==
    IF Truthy(i.finalPrice)
    THEN LET r == Div100Round2(i.finalPrice)
         IN IF r.exc = NoExc THEN Return(Some(r.ret)) ELSE r
    ELSE Return(NoneF)

\* line 54: "ON" if final_price and final_price < base_price else "OFF"
FlashSale(final_price, base_price) ==
    IF final_price # NoneF /\ final_price[1] # 0 /\ final_price[1] < base_price
    THEN "ON" ELSE "OFF"

\* lines 61-65: raw_price = price or defaultPrice or 0; int(raw_price), 0 on failure
VariantPrice(var) ==
    LET raw_price == Or(Or(var.price, var.defaultPrice), Num(0))
    IN IF IsNumeric(raw_price) THEN TruncTenths(raw_price.n) ELSE 0

\* lines 60-73: the variations of one group
RECURSIVE Variations(_, _)
Variations(group_name, vs) ==
    IF vs = <<>> THEN <<>>
    ELSE <<[variant_group |-> group_name,
            variant_name |-> Head(vs).name,
            variant_price_add |-> VariantPrice(Head(vs)),
            variant_inStock |-> Head(vs).inStock,
            variant_isDefault |-> Head(vs).default,
            variant_isEnabled |-> Head(vs).isEnabled]>>
         \o Variations(group_name, Tail(vs))

\* lines 58-73 over the variant groups; a group that is no mapping raises at vg.get
RECURSIVE VariantGroups(_)
VariantGroups(gs) ==
    IF gs = <<>> THEN Return(<<>>)
    ELSE IF Head(gs).shape = "bad" THEN Raise(AttributeError)
    ELSE LET rest == VariantGroups(Tail(gs))
         IN IF rest.exc # NoExc THEN rest
            ELSE Return(Variations(Head(gs).name, Head(gs).variations) \o rest.ret)

\* line 58: info.get("variantsV2", {}).get("variantGroups", [])
Variants(i) ==
    IF i.variantsV2.shape = "absent" THEN Return(<<>>)
    ELSE IF i.variantsV2.shape = "bad" THEN Raise(AttributeError)
    ELSE VariantGroups(i.variantsV2.variantGroups)

parse_item(i, restaurant_name, restaurant_id, category_title, subzone_name) ==
    IF i.shape = "falsy" THEN Return(<<>>)
    ELSE IF i.shape = "bad" THEN Raise(AttributeError)
    ELSE LET base == BasePrice(i)
             fin == FinalPrice(i)
             vs == Variants(i)
         IN IF base.exc # NoExc THEN Raise(base.exc)
            ELSE IF fin.exc # NoExc THEN Raise(fin.exc)
            ELSE IF vs.exc # NoExc THEN Raise(vs.exc)
            ELSE Return(<<[res_id |-> restaurant_id,
                           restaurant |-> restaurant_name,
                           subzone |-> IF subzone_name = None THEN "" ELSE subzone_name,
                           category |-> IF category_title # "" THEN category_title
                                        ELSE i.category,
                           dish_name |-> i.name,
                           description |-> i.description,
                           base_price |-> base.ret,
                           final_price |-> fin.ret,
                           flashSale |-> FlashSale(fin.ret, base.ret),
                           inStock |-> i.inStock,
                           image |-> i.imageId,
                           variants |-> vs.ret]>>)

----------------------------------------------------------------------------
(* Raw item nodes *)

\* A variation of a variant group.
Variation(name, price, defaultPrice) ==
    [name |-> name, price |-> price, defaultPrice |-> defaultPrice,
     inStock |-> 1, default |-> 0, isEnabled |-> TRUE]

VariantGroup(name, variations) ==
    [shape |-> "dict", name |-> name, variations |-> variations]

BadGroup == [shape |-> "bad", name |-> None, variations |-> <<>>]

NoVariantsV2 == [shape |-> "absent", variantGroups |-> <<>>]
BadVariantsV2 == [shape |-> "bad", variantGroups |-> <<>>]
VariantsV2(groups) == [shape |-> "groups", variantGroups |-> groups]

\* An item info node that is a mapping.
Item(name, price, defaultPrice, finalPrice, variantsV2) ==
    [shape |-> "dict", name |-> name, category |-> "", description |-> "",
     imageId |-> None, inStock |-> TRUE,
     price |-> price, defaultPrice |-> defaultPrice, finalPrice |-> finalPrice,
     variantsV2 |-> variantsV2]

\* {} / None / missing: parse_item returns [].
FalsyInfo == [Item("", Missing, Missing, Missing, NoVariantsV2) EXCEPT !.shape = "falsy"]
\* A truthy value that is no mapping (a string, a list): info.get raises.
BadInfo == [Item("", Missing, Missing, Missing, NoVariantsV2) EXCEPT !.shape = "bad"]

\* Numeric raw prices, in tenths: 0, 0.4, 100 and 150 minor units.
NumVals == {0, 4, 1000, 1500}
PriceVals == {Missing, Null, EmptyStr, Text} \cup {Num(n) : n \in NumVals}

VariantsV2Vals ==
    {NoVariantsV2, BadVariantsV2,
     VariantsV2(<<VariantGroup("Size", <<>>)>>),
     VariantsV2(<<VariantGroup("Size", <<Variation("Large", Num(250000), Missing)>>)>>),
     VariantsV2(<<VariantGroup("Size", <<Variation("Large", Text, Num(500))>>)>>),
     VariantsV2(<<VariantGroup("Size", <<Variation("Half", EmptyStr, Num(127))>>),
                  BadGroup>>)}

InfoSet ==
    {FalsyInfo, BadInfo} \cup
    {Item("Burger", p, d, f, v) :
        p \in PriceVals, d \in PriceVals, f \in PriceVals, v \in VariantsV2Vals}

----------------------------------------------------------------------------
(* parse_menu_from_data *)

\* Mutant: the handler names AttributeError only.
CaughtOnlyAttributeError(e) == e = AttributeError

\* What "except Exception" catches.
CaughtByException(e) == e \in ExceptionSubclasses

\* line 97 / line 148: data.get("data", {}).get("cards", []).
\* "nondict": the document is no mapping; "nodata": {}; "baddata": data["data"] is
\* no mapping; "nocards": {"data": {}}; "badcards": cards is not iterable;
\* "cards": a list of cards.
CardsOf(d) ==
    CASE d.shape = "nondict" -> Raise(AttributeError)
      [] d.shape = "nodata" -> Return(<<>>)
      [] d.shape = "baddata" -> Raise(AttributeError)
      [] d.shape = "nocards" -> Return(<<>>)
      [] d.shape = "badcards" -> Raise(TypeError)
      [] OTHER -> Return(d.cards)

\* line 101 / line 151: c.get("card", {}).get("card", {}).get("info")
CardInfo(c) ==
    IF c.shape = "bad" \/ c.inner = "bad" THEN Raise(AttributeError)
    ELSE Return(c.info)

\* line 102 / line 152: info and info.get("name"); raises on a truthy non-mapping
HasName(i) ==
    CASE i.shape = "absent" -> Return(FALSE)
      [] i.shape = "bad" -> Raise(AttributeError)
      [] OTHER -> Return(i.name # "" /\ i.name # None)

\* line 105 / line 154: info.get("areaName") or info.get("subzoneName") or ""
SubzoneOf(i) ==
    IF i.areaName # None /\ i.areaName # "" THEN i.areaName
    ELSE IF i.subzoneName # None /\ i.subzoneName # "" THEN i.subzoneName
    ELSE ""

NoRestaurant == [restaurant_name |-> None, restaurant_id |-> None, subzone_name |-> None]

\* Mutant: the scan without its break, so that the last named card wins.
RECURSIVE RestaurantScanNoBreak(_)
RestaurantScanNoBreak(cards) ==
    IF cards = <<>> THEN NoRestaurant
    ELSE LET i == CardInfo(Head(cards))
             named == IF i.exc = NoExc THEN HasName(i.ret) ELSE i
             later == RestaurantScanNoBreak(Tail(cards))
         IN IF named.exc = NoExc /\ named.ret /\ later = NoRestaurant
            THEN [restaurant_name |-> i.ret.name,
                  restaurant_id |-> i.ret.id,
                  subzone_name |-> SubzoneOf(i.ret)]
            ELSE later

\* lines 99-108: the first card whose info has a name; a card whose lookup raises
\* is skipped (except: continue); the scan stops at the match (break).
RECURSIVE RestaurantScan(_)
RestaurantScan(cards) ==
    IF cards = <<>> THEN NoRestaurant
    ELSE LET i == CardInfo(Head(cards))
             named == IF i.exc = NoExc THEN HasName(i.ret) ELSE i
         IN IF named.exc = NoExc /\ named.ret
            THEN [restaurant_name |-> i.ret.name,
                  restaurant_id |-> i.ret.id,
                  subzone_name |-> SubzoneOf(i.ret)]
            ELSE RestaurantScan(Tail(cards))

\* line 114: c.get("groupedCard", {}).get("cardGroupMap", {}).get("REGULAR", {}).get("cards", [])
GroupedOf(c) ==
    IF c.shape = "bad" \/ c.grouped.shape = "bad" THEN Raise(AttributeError)
    ELSE IF c.grouped.shape = "absent" THEN Return(<<>>)
    ELSE Return(c.grouped.cards)

\* lines 111-119: the first non-empty regular-menu group
RECURSIVE GroupedScan(_)
GroupedScan(cards) ==
    IF cards = <<>> THEN <<>>
    ELSE LET g == GroupedOf(Head(cards))
         IN IF g.exc = NoExc /\ g.ret # <<>> THEN g.ret
            ELSE GroupedScan(Tail(cards))

\* line 129: itemCard.get("card", {}).get("info", {})
ItemInfo(itemCard) ==
    IF itemCard.shape = "bad" THEN Raise(AttributeError) ELSE Return(itemCard.info)

\* line 134: itemCard.get("card", {}).get("info")
\*           or itemCard.get("card", {}).get("card", {}).get("info") or {}
ItemInfoFlat(itemCard) ==
    IF itemCard.shape = "bad" THEN Raise(AttributeError)
    ELSE IF itemCard.info.shape # "falsy" THEN Return(itemCard.info)
    ELSE IF itemCard.info2.shape # "falsy" THEN Return(itemCard.info2)
    ELSE Return(FalsyInfo)

\* lines 128-130 / 133-136: the item cards of one category or of one flat card.
\* No handler surrounds an item: the first exception leaves the loop, with the
\* records appended so far in ret.
RECURSIVE ItemLoop(_, _, _, _)
ItemLoop(item_cards, flat, r, cat_title) ==
    IF item_cards = <<>> THEN Return(<<>>)
    ELSE LET i == IF flat THEN ItemInfoFlat(Head(item_cards))
                   ELSE ItemInfo(Head(item_cards))
             rec == IF i.exc # NoExc THEN i
                    ELSE parse_item(i.ret, r.restaurant_name, r.restaurant_id,
                                    cat_title, r.subzone_name)
         IN IF rec.exc # NoExc THEN Raise(rec.exc)
            ELSE LET rest == ItemLoop(Tail(item_cards), flat, r, cat_title)
                 IN [exc |-> rest.exc, ret |-> rec.ret \o rest.ret]

\* cat.get("itemCards", []) / card_obj.get("itemCards", []), then the loop over it
ItemCardsLoop(itemCards, flat, r, cat_title) ==
    CASE itemCards.shape = "absent" -> Return(<<>>)
      [] itemCards.shape = "bad" -> Raise(TypeError)
      [] OTHER -> ItemLoop(itemCards.cards, flat, r, cat_title)

\* lines 125-130: the categories of one card
RECURSIVE CategoryLoop(_, _)
CategoryLoop(categories, r) ==
    IF categories = <<>> THEN Return(<<>>)
    ELSE LET cat == Head(categories)
             got == IF cat.shape = "bad" THEN Raise(AttributeError)
                    ELSE ItemCardsLoop(cat.itemCards, FALSE, r, cat.title)
         IN IF got.exc # NoExc THEN got
            ELSE LET rest == CategoryLoop(Tail(categories), r)
                 IN [exc |-> rest.exc, ret |-> got.ret \o rest.ret]

\* lines 122-136: one card of the regular-menu group
MenuCard(card, r) ==
    IF card.shape = "bad" THEN Raise(AttributeError)
    ELSE CASE card.categories.shape = "list" -> CategoryLoop(card.categories.cats, r)
           [] card.categories.shape = "bad" -> Raise(TypeError)
           [] OTHER -> ItemCardsLoop(card.itemCards, TRUE, r, card.title)

\* lines 121-136: the loop over the group; no handler surrounds a card
RECURSIVE MenuCardLoop(_, _)
MenuCardLoop(grouped_cards, r) ==
    IF grouped_cards = <<>> THEN Return(<<>>)
    ELSE LET got == MenuCard(Head(grouped_cards), r)
         IN IF got.exc # NoExc THEN got
            ELSE LET rest == MenuCardLoop(Tail(grouped_cards), r)
                 IN [exc |-> rest.exc, ret |-> got.ret \o rest.ret]

\* lines 97-136: the body of the try block; ret is the list `items` as it stands
\* when the block is left
MenuBody(d) ==
    LET cards == CardsOf(d)
    IN IF cards.exc # NoExc THEN cards
       ELSE MenuCardLoop(GroupedScan(cards.ret), RestaurantScan(cards.ret))

\* lines 90-140: try: ... except Exception: pass; return items
parse_menu_from_data(d) ==
    LET body == MenuBody(d)
    IN IF body.exc = NoExc \/ CaughtByException(body.exc)
       THEN Return(body.ret)
       ELSE body

----------------------------------------------------------------------------
(* extract_offers_from_data *)
(* Titles and coupon codes are strings held as sequences of characters,    *)
(* so that compare_offers can strip them; <<>> is the empty string, and    *)
(* stands for a missing or null value where the code reads `x or default`. *)

OfferTitle == <<"O", "f", "f", "e", "r">>
PlaceholderLogo == "https://via.placeholder.com/120?text=No+Logo"

\* lines 149-157: the restaurant scan of extract_offers_from_data (its own copy of
\* lines 99-108; restaurant_id is not read here)
RECURSIVE OffersRestaurantScan(_)
OffersRestaurantScan(cards) ==
    IF cards = <<>> THEN [restaurant_name |-> None, subzone_name |-> None]
    ELSE LET i == CardInfo(Head(cards))
             named == IF i.exc = NoExc THEN HasName(i.ret) ELSE i
         IN IF named.exc = NoExc /\ named.ret
            THEN [restaurant_name |-> i.ret.name, subzone_name |-> SubzoneOf(i.ret)]
            ELSE OffersRestaurantScan(Tail(cards))

\* A place of card_data that may hold offers: key absent, a value of the wrong
\* type (reading it raises e), or a list.
SectionOffers(section, e) ==
    CASE section.shape = "absent" -> Return(<<>>)
      [] section.shape = "bad" -> Raise(e)
      [] OTHER -> Return(section.offers)

\* lines 168-172: offers nested one level inside card_data["cards"]
RECURSIVE NestedOffers(_)
NestedOffers(nested) ==
    IF nested = <<>> THEN Return(<<>>)
    ELSE LET got == IF Head(nested).shape = "bad" THEN Raise(AttributeError)
                    ELSE SectionOffers(Head(nested).offers, TypeError)
         IN IF got.exc # NoExc THEN got
            ELSE LET rest == NestedOffers(Tail(nested))
                 IN IF rest.exc # NoExc THEN rest
                    ELSE Return(got.ret \o rest.ret)

\* lines 161-172: offers_candidates of one card; all three places are read
OffersCandidates(card) ==
    IF card.shape = "bad" \/ card.inner = "bad" THEN Raise(AttributeError)
    ELSE LET grid == SectionOffers(card.gridElements, AttributeError)
             direct == SectionOffers(card.offers, TypeError)
             nested == CASE card.cards.shape = "absent" -> Return(<<>>)
                         [] card.cards.shape = "bad" -> Raise(TypeError)
                         [] OTHER -> NestedOffers(card.cards.nested)
         IN IF grid.exc # NoExc THEN grid
            ELSE IF direct.exc # NoExc THEN direct
            ELSE IF nested.exc # NoExc THEN nested
            ELSE Return(grid.ret \o direct.ret \o nested.ret)

\* lines 175-185: the record of one raw offer
OfferRecord(o, r) ==
    [res_id |-> r.restaurant_name,
     restaurant |-> IF r.restaurant_name = None THEN "" ELSE r.restaurant_name,
     subzone |-> IF r.subzone_name = None THEN "" ELSE r.subzone_name,
     title |-> IF o.header # <<>> THEN o.header ELSE OfferTitle,
     code |-> o.couponCode,
     description |-> o.description,
     discount |-> o.discountType,
     image |-> IF o.offerLogo # "" THEN o.offerLogo ELSE PlaceholderLogo]

\* lines 174-185: the records appended for the candidates; an offer that is no
\* mapping raises at o.get, after the records before it were appended
RECURSIVE EmitOffers(_, _)
EmitOffers(candidates, r) ==
    IF candidates = <<>> THEN Return(<<>>)
    ELSE IF Head(candidates).shape = "bad" THEN Raise(AttributeError)
    ELSE LET rest == EmitOffers(Tail(candidates), r)
         IN [exc |-> rest.exc, ret |-> <<OfferRecord(Head(candidates), r)>> \o rest.ret]

\* lines 160-185: the try block of one card
CardOffers(card, r) ==
    LET cand == OffersCandidates(card)
    IN IF cand.exc # NoExc THEN cand ELSE EmitOffers(cand.ret, r)

\* Mutant: the loop without the handler around a card, left at the first card
\* that raises (as the menu loop is).
RECURSIVE OfferLoopNoHandler(_, _)
OfferLoopNoHandler(cards, r) ==
    IF cards = <<>> THEN Return(<<>>)
    ELSE LET got == CardOffers(Head(cards), r)
         IN IF got.exc = NoExc
            THEN LET rest == OfferLoopNoHandler(Tail(cards), r)
                 IN [exc |-> rest.exc, ret |-> got.ret \o rest.ret]
            ELSE got

\* lines 159-187: the loop over the cards; except Exception: continue
RECURSIVE OfferLoop(_, _)
OfferLoop(cards, r) ==
    IF cards = <<>> THEN Return(<<>>)
    ELSE LET got == CardOffers(Head(cards), r)
         IN IF got.exc = NoExc \/ CaughtByException(got.exc)
            THEN LET rest == OfferLoop(Tail(cards), r)
                 IN [exc |-> rest.exc, ret |-> got.ret \o rest.ret]
            ELSE got

\* lines 148-187: the body of the outer try block
OffersBody(d) ==
    LET cards == CardsOf(d)
    IN IF cards.exc # NoExc THEN cards
       ELSE OfferLoop(cards.ret, OffersRestaurantScan(cards.ret))

\* lines 142-190: try: ... except Exception: pass; return offers_list
extract_offers_from_data(d) ==
    LET body == OffersBody(d)
    IN IF body.exc = NoExc \/ CaughtByException(body.exc)
       THEN Return(body.ret)
       ELSE body

----------------------------------------------------------------------------
(* flatten_items_with_variants *)
(* A dict is a record; a key that was popped is no longer in its DOMAIN.   *)
(* In a row the five variant fields are optional values: <<>> is None.     *)

VariantFields ==
    {"variant_group", "variant_name", "variant_price_add", "variant_inStock",
     "variant_isDefault"}

\* d without key k
Without(d, k) == [f \in DOMAIN d \ {k} |-> d[f]]

\* line 206: item.pop("variants", []) -- the value popped
PoppedVariants(item) == IF "variants" \in DOMAIN item THEN item.variants ELSE <<>>

\* lines 209-216: item.copy() updated with one variant's fields (var.get(...))
VariantRow(item, var) ==
    [f \in DOMAIN item \cup VariantFields |->
        IF f \in VariantFields THEN Some(var[f]) ELSE item[f]]

\* lines 220-227: item.copy() updated with the five fields set to None
EmptyRow(item) ==
    [f \in DOMAIN item \cup VariantFields |->
        IF f \in VariantFields THEN NoneF ELSE item[f]]

\* lines 208-217: one row per variant
RECURSIVE VariantRows(_, _)
VariantRows(item, variants) ==
    IF variants = <<>> THEN <<>>
    ELSE <<VariantRow(item, Head(variants))>> \o VariantRows(item, Tail(variants))

\* Mutant: the else branch left out, a dish without variants gives no row.
ItemRowsNoElse(item, variants) == VariantRows(item, variants)

\* lines 206-228 for one item: the rows appended; item is the dict after the pop
ItemRows(item, variants) ==
    IF variants # <<>> THEN VariantRows(item, variants) ELSE <<EmptyRow(item)>>

\* lines 202-229: flat_rows is returned; the dicts of the caller's list are left
\* as the pop left them
RECURSIVE flatten_items_with_variants(_)
flatten_items_with_variants(its) ==
    IF its = <<>> THEN [flat_rows |-> <<>>, items |-> <<>>]
    ELSE LET item == Without(Head(its), "variants")
             rest == flatten_items_with_variants(Tail(its))
         IN [flat_rows |-> ItemRows(item, PoppedVariants(Head(its))) \o rest.flat_rows,
             items |-> <<item>> \o rest.items]

\* lines 263-265 of scrape_and_generate_excel: for i in items: the restaurant
\* names not seen yet are appended, in order
RECURSIVE CollectNames(_, _)
CollectNames(its, names) ==
    IF its = <<>> THEN names
    ELSE CollectNames(Tail(its),
                      IF \E k \in 1..Len(names) : names[k] = Head(its).restaurant
                      THEN names ELSE Append(names, Head(its).restaurant))

----------------------------------------------------------------------------
(* compare_offers: the reconciliation step *)
(* A cell of the reference sheet is a string or empty (pandas reads an     *)
(* empty cell as NaN).                                                     *)

Str(s) == [t |-> "str", s |-> s]
NaN == [t |-> "nan", s |-> <<>>]

\* astype(str): a string is kept, NaN becomes the text "nan"
AsStr(cell) == IF cell.t = "nan" THEN <<"n", "a", "n">> ELSE cell.s

WhiteSpace == {" "}

RECURSIVE LStrip(_)
LStrip(s) == IF s # <<>> /\ Head(s) \in WhiteSpace THEN LStrip(Tail(s)) ELSE s

RECURSIVE RStrip(_)
RStrip(s) ==
    IF s # <<>> /\ s[Len(s)] \in WhiteSpace THEN RStrip(SubSeq(s, 1, Len(s) - 1)) ELSE s

\* .str.strip()
Strip(s) == RStrip(LStrip(s))

\* lines 315-316: df_ref['title'] / ['code'] = ....astype(str).str.strip()
NormalizeRef(rows) ==
    [k \in 1..Len(rows) |->
        [rows[k] EXCEPT !.title = Str(Strip(AsStr(rows[k].title))),
                        !.code = Str(Strip(AsStr(rows[k].code)))]]

\* lines 334-335: the same on the scraped offers, whose title and code are strings
NormalizeScraped(rows) ==
    [k \in 1..Len(rows) |->
        [rows[k] EXCEPT !.title = Strip(AsStr(Str(rows[k].title))),
                        !.code = Strip(AsStr(Str(rows[k].code)))]]

\* Mutant: the comparison on the title alone.
AnyMatchTitleOnly(ref, row) ==
    \E k \in 1..Len(ref) : ref[k].title.s = row.title

\* line 339: ((df_ref['title'] == row['title']) & (df_ref['code'] == row['code'])).any()
AnyMatch(ref, row) ==
    \E k \in 1..Len(ref) : ref[k].title.s = row.title /\ ref[k].code.s = row.code

\* lines 338-340: the column 'match' added to every scraped row
WithMatch(ref, rows) ==
    [k \in 1..Len(rows) |->
        [f \in DOMAIN rows[k] \cup {"match"} |->
            IF f = "match" THEN AnyMatch(ref, rows[k]) ELSE rows[k][f]]]

\* line 342: df_scraped[~df_scraped['match']].drop(columns=['match']).to_dict('records')
RECURSIVE Mismatches(_)
Mismatches(rows) ==
    IF rows = <<>> THEN <<>>
    ELSE (IF ~Head(rows).match THEN <<Without(Head(rows), "match")>> ELSE <<>>)
         \o Mismatches(Tail(rows))

ErrorResponse(status_code, error) ==
    [status_code |-> status_code, content |-> "error", error |-> error,
     mismatches |-> <<>>]

\* Mutant: the handler without its check for an empty scraped collection.
compare_offers_no_empty_check(file, scraped) ==
    CASE file.shape = "unreadable" -> Return(ErrorResponse(400, "Invalid file format"))
      [] file.shape = "nocolumns" -> Raise(KeyError)
      [] OTHER ->
            Return([status_code |-> 200, content |-> "mismatches", error |-> "",
                    mismatches |->
                        Mismatches(WithMatch(NormalizeRef(file.rows),
                                             NormalizeScraped(scraped)))])

\* lines 305-344.  file: "unreadable" (neither read_excel nor read_csv reads it),
\* "nocolumns" (a table without a title or code column: KeyError leaves the
\* handler), "table".
compare_offers(file, scraped) ==
    CASE file.shape = "unreadable" -> Return(ErrorResponse(400, "Invalid file format"))
      [] file.shape = "nocolumns" -> Raise(KeyError)
      [] OTHER ->
            LET ref == NormalizeRef(file.rows)
            IN IF scraped = <<>>
               THEN Return(ErrorResponse(404, "No offers scraped"))
               ELSE Return([status_code |-> 200, content |-> "mismatches",
                            error |-> "",
                            mismatches |->
                                Mismatches(WithMatch(ref, NormalizeScraped(scraped)))])

----------------------------------------------------------------------------
(* Raw documents *)

MaxCards == 3       \* top-level cards of a document
MaxMenuCards == 2   \* cards of a regular-menu group
MaxCats == 2        \* categories of a card
MaxItems == 2       \* item cards of a flat card

\* Item cards
ItemCard(i) == [shape |-> "dict", info |-> i, info2 |-> FalsyInfo]
ItemCardNested(i) == [shape |-> "dict", info |-> FalsyInfo, info2 |-> i]
BadItemCard == [shape |-> "bad", info |-> FalsyInfo, info2 |-> FalsyInfo]

Burger == Item("Burger", Num(150000), Missing, Num(120000), NoVariantsV2)
Fries == Item("Fries", Missing, Num(9000), Missing,
              VariantsV2(<<VariantGroup("Size", <<Variation("Large", Num(250000), Missing)>>)>>))
Shake == Item("Shake", Num(20000), Missing, Missing, NoVariantsV2)
\* an item whose price is a string: parse_item raises TypeError
Soda == Item("Soda", Text, Missing, Missing, NoVariantsV2)

ItemCardSet ==
    {ItemCard(Burger), ItemCard(Fries), ItemCardNested(Shake), ItemCard(Soda),
     ItemCard(FalsyInfo), BadItemCard}

ItemCards(l) == [shape |-> "list", cards |-> l]
NoItemCards == [shape |-> "absent", cards |-> <<>>]
BadItemCards == [shape |-> "bad", cards |-> <<>>]

\* Categories
Category(title, itemCards) == [shape |-> "dict", title |-> title, itemCards |-> itemCards]
BadCategory == [shape |-> "bad", title |-> "", itemCards |-> NoItemCards]

CategorySet ==
    {BadCategory,
     Category("Mains", ItemCards(<<ItemCard(Burger)>>)),
     Category("Sides", ItemCards(<<ItemCard(Soda), ItemCard(Fries)>>)),
     Category("Drinks", ItemCards(<<ItemCard(Shake)>>)),
     Category("Empty", NoItemCards)}

\* Cards of the regular-menu group
NoCategories == [shape |-> "absent", cats |-> <<>>]
FlatCard(title, itemCards) ==
    [shape |-> "dict", title |-> title, categories |-> NoCategories,
     itemCards |-> itemCards]
CategorisedCard(cats) ==
    [shape |-> "dict", title |-> "", itemCards |-> NoItemCards,
     categories |-> [shape |-> "list", cats |-> cats]]
BadCategoriesCard ==
    [shape |-> "dict", title |-> "", itemCards |-> NoItemCards,
     categories |-> [shape |-> "bad", cats |-> <<>>]]
BadMenuCard ==
    [shape |-> "bad", title |-> "", itemCards |-> NoItemCards,
     categories |-> NoCategories]

MenuCardSet ==
    {BadMenuCard, BadCategoriesCard,
     FlatCard("Specials", ItemCards(<<ItemCard(Burger)>>)),
     FlatCard("", ItemCards(<<ItemCard(Soda)>>)),
     CategorisedCard(<<Category("Sides", ItemCards(<<ItemCard(Fries)>>))>>)}

GroupedSet ==
    SeqsBetween(MenuCardSet, 1, MaxMenuCards)
    \cup {<<FlatCard("Specials", ItemCards(l))>> : l \in SeqsBetween(ItemCardSet, 0, MaxItems)}
    \cup {<<FlatCard("Specials", BadItemCards)>>}
    \cup {<<CategorisedCard(cl)>> : cl \in SeqsBetween(CategorySet, 1, MaxCats)}

\* Raw offers
Offer(header, couponCode) ==
    [shape |-> "dict", header |-> header, couponCode |-> couponCode,
     description |-> "", discountType |-> "", offerLogo |-> ""]
BadOffer == [Offer(<<>>, <<>>) EXCEPT !.shape = "bad"]

Offer1 == Offer(<<"A">>, <<"X">>)
Offer2 == Offer(<<"B">>, <<>>)
Offer3 == Offer(<<>>, <<"Y">>)

Offers(l) == [shape |-> "list", offers |-> l]
NoOffers == [shape |-> "absent", offers |-> <<>>]
BadSection == [shape |-> "bad", offers |-> <<>>]

Nested(l) == [shape |-> "list", nested |-> l]
NoNested == [shape |-> "absent", nested |-> <<>>]

\* Restaurant info
RestaurantInfo(name, id, areaName, subzoneName) ==
    [shape |-> "dict", name |-> name, id |-> id,
     areaName |-> areaName, subzoneName |-> subzoneName]
NoInfo == [shape |-> "absent", name |-> None, id |-> None,
           areaName |-> None, subzoneName |-> None]
BadRestaurantInfo == [NoInfo EXCEPT !.shape = "bad"]

NoGrouped == [shape |-> "absent", cards |-> <<>>]
Grouped(g) == [shape |-> "list", cards |-> g]

\* Top-level cards
EmptyCard ==
    [shape |-> "dict", inner |-> "dict", info |-> NoInfo, grouped |-> NoGrouped,
     gridElements |-> NoOffers, offers |-> NoOffers, cards |-> NoNested]
BadCard == [EmptyCard EXCEPT !.shape = "bad"]
BadInnerCard == [EmptyCard EXCEPT !.inner = "bad"]
InfoCard(i) == [EmptyCard EXCEPT !.info = i]
MenuTopCard(g) == [EmptyCard EXCEPT !.grouped = Grouped(g)]

Diner == RestaurantInfo("Test Diner", "123", "Andheri", "Powai")
Cafe == RestaurantInfo("Cafe", "456", None, "Bandra")
Nameless == RestaurantInfo("", "789", "Juhu", None)

TopCardSet ==
    {BadCard, BadInnerCard,
     InfoCard(Diner), InfoCard(Cafe), InfoCard(Nameless), InfoCard(BadRestaurantInfo),
     MenuTopCard(<<FlatCard("Specials", ItemCards(<<ItemCard(Burger)>>))>>),
     MenuTopCard(<<FlatCard("Specials", ItemCards(<<ItemCard(Fries), ItemCard(Soda)>>))>>),
     [EmptyCard EXCEPT !.grouped = [shape |-> "bad", cards |-> <<>>]],
     [EmptyCard EXCEPT !.gridElements = Offers(<<Offer1>>)],
     [EmptyCard EXCEPT !.offers = Offers(<<Offer2, BadOffer, Offer1>>)],
     [EmptyCard EXCEPT !.gridElements = Offers(<<Offer1>>), !.offers = BadSection],
     [InfoCard(Diner) EXCEPT !.offers = Offers(<<Offer2>>),
                             !.cards = Nested(<<[shape |-> "dict", offers |-> NoOffers],
                                                [shape |-> "dict", offers |-> Offers(<<Offer3>>)]>>)],
     [EmptyCard EXCEPT !.cards = Nested(<<[shape |-> "dict", offers |-> Offers(<<Offer3>>)],
                                          [shape |-> "bad", offers |-> NoOffers]>>)]}

Doc(shape, cards) == [shape |-> shape, cards |-> cards]

DocSet ==
    {Doc(s, <<>>) : s \in {"nondict", "nodata", "baddata", "nocards", "badcards"}}
    \cup {Doc("cards", cs) : cs \in SeqsBetween(TopCardSet, 0, MaxCards)}
    \cup {Doc("cards", <<InfoCard(i), MenuTopCard(g)>>) :
              i \in {Diner, Nameless}, g \in GroupedSet}

----------------------------------------------------------------------------
(* Values of the variables a specification does not use *)

Idle == <<>>

IdleItem == info = Idle /\ itemOut = Idle
IdleParse == data = Idle /\ menuOut = Idle /\ offersOut = Idle
IdleFlatten ==
    /\ items = Idle /\ items0 = Idle /\ flat_rows = Idle /\ flat_first = Idle
    /\ restaurant_names = Idle
IdleCompare == df_ref = Idle /\ scraped_offers = Idle /\ response = Idle

itemVars == <<info, itemOut>>
parseVars == <<data, menuOut, offersOut>>
flattenVars == <<items, items0, flat_rows, flat_first, restaurant_names>>
compareVars == <<df_ref, scraped_offers, response>>

----------------------------------------------------------------------------
(* SpecItem: parse_item applied to one raw item node *)

InitItem ==
    /\ pc = "start"
    /\ info \in InfoSet
    /\ itemOut = Idle
    /\ IdleParse /\ IdleFlatten /\ IdleCompare

CallParseItem ==
    /\ pc = "start"
    /\ itemOut' = parse_item(info, "Test Diner", "123", "Mains", "Andheri")
    /\ pc' = "item_done"
    /\ UNCHANGED <<info, parseVars, flattenVars, compareVars>>

NextItem == CallParseItem

SpecItem == InitItem /\ [][NextItem]_vars

----------------------------------------------------------------------------
(* SpecParse: both parsers applied to one document, in the order of         *)
(* fetch_menu_for_resid (lines 196-197)                                     *)

InitParse ==
    /\ pc = "start"
    /\ data \in DocSet
    /\ menuOut = Idle
    /\ offersOut = Idle
    /\ IdleItem /\ IdleFlatten /\ IdleCompare

CallParseMenu ==
    /\ pc = "start"
    /\ menuOut' = parse_menu_from_data(data)
    /\ pc' = "menu_done"
    /\ UNCHANGED <<data, offersOut, itemVars, flattenVars, compareVars>>

CallExtractOffers ==
    /\ pc = "menu_done"
    /\ offersOut' = extract_offers_from_data(data)
    /\ pc' = "parse_done"
    /\ UNCHANGED <<data, menuOut, itemVars, flattenVars, compareVars>>

NextParse == CallParseMenu \/ CallExtractOffers

SpecParse == InitParse /\ [][NextParse]_vars

----------------------------------------------------------------------------
(* SpecFlatten: flatten_items_with_variants called on the dish records      *)
(* parse_item produced; then the caller reads the records (lines 263-265),  *)
(* or flattens them again                                                   *)

MaxDishes == 3      \* dish records in the list

Pizza ==
    Item("Pizza", Num(300000), Missing, Missing,
         VariantsV2(<<VariantGroup("Size", <<Variation("Small", Missing, Missing),
                                             Variation("Large", Num(1200), Missing)>>),
                      VariantGroup("Crust", <<Variation("Thin", Text, Num(500))>>)>>))

DishSet ==
    {parse_item(i, "Test Diner", "123", "Mains", "Andheri").ret[1] : i \in {Burger, Fries}}
    \cup {parse_item(Pizza, "Cafe", "456", "", "Bandra").ret[1]}

InitFlatten ==
    /\ pc = "start"
    /\ items \in SeqsBetween(DishSet, 0, MaxDishes)
    /\ items0 = Idle
    /\ flat_rows = Idle
    /\ flat_first = Idle
    /\ restaurant_names = <<>>
    /\ IdleItem /\ IdleParse /\ IdleCompare

\* line 260: items_flat = flatten_items_with_variants(items)
CallFlatten ==
    /\ pc \in {"start", "flat_once"}
    /\ LET out == flatten_items_with_variants(items)
       IN /\ flat_rows' = out.flat_rows
          /\ items' = out.items
          /\ flat_first' = IF pc = "start" THEN out.flat_rows ELSE flat_first
    /\ items0' = items
    /\ pc' = IF pc = "start" THEN "flat_once" ELSE "flat_twice"
    /\ UNCHANGED <<restaurant_names, itemVars, parseVars, compareVars>>

\* lines 263-265: the caller reads the dish records it handed to flatten
ReadRestaurantNames ==
    /\ pc = "flat_once"
    /\ restaurant_names' = CollectNames(items, restaurant_names)
    /\ pc' = "names_read"
    /\ UNCHANGED <<items, items0, flat_rows, flat_first, itemVars, parseVars, compareVars>>

NextFlatten == CallFlatten \/ ReadRestaurantNames

SpecFlatten == InitFlatten /\ [][NextFlatten]_vars

----------------------------------------------------------------------------
(* SpecCompare: compare_offers on a reference sheet and the offers scraped  *)

MaxRef == 2         \* rows of the reference sheet
MaxScraped == 2     \* offers scraped

RefRow(title, code) == [title |-> title, code |-> code]

RefRowSet ==
    {RefRow(Str(<<"A">>), Str(<<"X">>)),
     RefRow(Str(<<" ", "A", " ">>), Str(<<"X", " ">>)),
     RefRow(Str(<<"B">>), NaN),
     RefRow(Str(<<"B">>), Str(<<>>))}

\* offer records as extract_offers_from_data emits them
ScrapedSet ==
    {OfferRecord(o, [restaurant_name |-> "Test Diner", subzone_name |-> "Andheri"]) :
        o \in {Offer(<<"A">>, <<"X">>),
               Offer(<<"A", " ">>, <<" ", "X">>),
               Offer(<<"B">>, <<>>),
               Offer(<<"B">>, <<"n", "a", "n">>)}}

Table(rows) == [shape |-> "table", rows |-> rows]

InitCompare ==
    /\ pc = "start"
    /\ df_ref \in {[shape |-> "unreadable", rows |-> <<>>],
                   [shape |-> "nocolumns", rows |-> <<>>]}
                  \cup {Table(rows) : rows \in SeqsBetween(RefRowSet, 0, MaxRef)}
    /\ scraped_offers \in SeqsBetween(ScrapedSet, 0, MaxScraped)
    /\ response = Idle
    /\ IdleItem /\ IdleParse /\ IdleFlatten

CallCompareOffers ==
    /\ pc = "start"
    /\ response' = compare_offers(df_ref, scraped_offers)
    /\ pc' = "compare_done"
    /\ UNCHANGED <<df_ref, scraped_offers, itemVars, parseVars, flattenVars>>

NextCompare == CallCompareOffers

SpecCompare == InitCompare /\ [][NextCompare]_vars

----------------------------------------------------------------------------
(* Claims about parse_item (SpecItem) *)

\* parse_item returned exactly one dish record for a mapping.
ItemProduced == pc = "item_done" /\ itemOut.exc = NoExc /\ Len(itemOut.ret) = 1

\* C5: for every dish record produced by parse_item, the flash-sale flag is ON
\* if and only if the final price is present (not None) and strictly less than
\* the base price; the final price is absent exactly when the item's finalPrice
\* is missing, null or zero, and then the flag is OFF.  (The last part is stated
\* for a finalPrice that is a number, null or missing.)
C5_FlashSaleIff ==
    ItemProduced =>
        LET r == itemOut.ret[1]
        IN /\ (r.flashSale = "ON") <=>
                  (r.final_price # NoneF /\ r.final_price[1] < r.base_price)
           /\ info.finalPrice.t \in {"missing", "null", "num"} =>
                  ((r.final_price = NoneF) <=>
                       (info.finalPrice \in {Missing, Null, Num(0)}))
           /\ (r.final_price = NoneF) => r.flashSale = "OFF"

\* A price field holds a value that is not a number (a string).
NonNumeric(p) == p.t \in {"text", "empty"}

\* A raw price with a non-numeric value read as 0.
Coerced(p) == IF NonNumeric(p) THEN Num(0) ELSE p

\* C8: any non-numeric value in a price field (price, defaultPrice, finalPrice of
\* a dish) is treated as 0: parse_item does not fail on it, and the dish record
\* is produced with that price coerced to 0.
C8_NonNumericPriceCoerced ==
    (/\ pc = "item_done"
     /\ info.shape = "dict"
     /\ info.variantsV2.shape = "absent"
     /\ \/ NonNumeric(info.price)
        \/ NonNumeric(info.defaultPrice)
        \/ NonNumeric(info.finalPrice))
    => /\ itemOut.exc = NoExc
       /\ Len(itemOut.ret) = 1
       /\ itemOut.ret[1].base_price =
              RoundTenths(Or(Or(Coerced(info.price), Coerced(info.defaultPrice)),
                             Num(0)).n)
       /\ itemOut.ret[1].final_price =
              IF Truthy(Coerced(info.finalPrice))
              THEN Some(RoundTenths(info.finalPrice.n)) ELSE NoneF

----------------------------------------------------------------------------
(* Claims about the two parsers (SpecParse) *)

Range(s) == {s[k] : k \in 1..Len(s)}

RECURSIVE Concat(_)
Concat(ss) == IF ss = <<>> THEN <<>> ELSE Head(ss) \o Concat(Tail(ss))

\* The restaurant context the offers of a document are emitted with.
OffersContext == OffersRestaurantScan(data.cards)

\* C1: for every input document, parse_menu_from_data and extract_offers_from_data
\* return a list and let no exception escape; for the empty document {} both
\* return the empty list.
C1_ParsersNeverRaise ==
    /\ pc \in {"menu_done", "parse_done"} =>
           /\ menuOut.exc = NoExc
           /\ data.shape = "nodata" => menuOut.ret = <<>>
    /\ pc = "parse_done" =>
           /\ offersOut.exc = NoExc
           /\ data.shape = "nodata" => offersOut.ret = <<>>

\* Both parsers have run on a document in which each hit an exception: the menu
\* loop was left by one, and a top-level card is no mapping.
C1_Witness ==
    /\ pc = "parse_done"
    /\ data.shape = "cards"
    /\ MenuBody(data).exc # NoExc
    /\ \E c \in Range(data.cards) : CardOffers(c, OffersContext).exc # NoExc

\* The dish names of the well-formed items of a list of item cards: those whose
\* own traversal raises nothing.
WellFormedNames(itemCards, flat) ==
    IF itemCards.shape # "list" THEN {}
    ELSE LET infos == {IF flat THEN ItemInfoFlat(ic).ret ELSE ItemInfo(ic).ret :
                          ic \in {c \in Range(itemCards.cards) : c.shape = "dict"}}
         IN {i.name : i \in {j \in infos :
                                /\ j.shape = "dict"
                                /\ parse_item(j, None, None, "", None).exc = NoExc}}

\* The dish names of the well-formed items of the well-formed categories and
\* cards of a regular-menu group.
GroupNames(grouped_cards) ==
    UNION {IF card.shape # "dict" THEN {}
           ELSE IF card.categories.shape = "list"
           THEN UNION {IF cat.shape = "dict"
                       THEN WellFormedNames(cat.itemCards, FALSE) ELSE {} :
                          cat \in Range(card.categories.cats)}
           ELSE IF card.categories.shape = "absent"
           THEN WellFormedNames(card.itemCards, TRUE)
           ELSE {} :
             card \in Range(grouped_cards)}

\* C2: in parse_menu_from_data, when traversal of one card, category or item of
\* the regular-menu group raises, only that unit is skipped: every well-formed
\* item before it and after it in document order still appears in the result.
C2_OnlyFailingUnitSkipped ==
    (pc \in {"menu_done", "parse_done"} /\ data.shape = "cards") =>
        \A name \in GroupNames(GroupedScan(data.cards)) :
            \E k \in 1..Len(menuOut.ret) : menuOut.ret[k].dish_name = name

\* C3: in extract_offers_from_data, when processing the offers of one top-level
\* card raises, the offers of every other top-level card, before and after it in
\* document order, are still emitted: the result is, card by card and in document
\* order, what each card emits on its own.
C3_OtherCardsStillEmitted ==
    (pc = "parse_done" /\ data.shape = "cards") =>
        offersOut.ret =
            Concat([k \in 1..Len(data.cards) |->
                        CardOffers(data.cards[k], OffersContext).ret])

\* A card that raises stands between two cards whose offers were emitted.
C3_Witness ==
    /\ pc = "parse_done"
    /\ data.shape = "cards"
    /\ \E i, j, k \in 1..Len(data.cards) :
          /\ i < j /\ j < k
          /\ CardOffers(data.cards[j], OffersContext).exc # NoExc
          /\ CardOffers(data.cards[i], OffersContext).exc = NoExc
          /\ CardOffers(data.cards[i], OffersContext).ret # <<>>
          /\ CardOffers(data.cards[k], OffersContext).exc = NoExc
          /\ CardOffers(data.cards[k], OffersContext).ret # <<>>
          /\ CardOffers(data.cards[i], OffersContext).ret \o
             CardOffers(data.cards[k], OffersContext).ret = offersOut.ret

\* Card k of the document exposes restaurant info with a non-empty name.
Named(k) ==
    /\ data.cards[k].shape = "dict"
    /\ data.cards[k].inner = "dict"
    /\ data.cards[k].info.shape = "dict"
    /\ data.cards[k].info.name \notin {"", None}

NamedCards == {k \in 1..Len(data.cards) : Named(k)}

FirstNamed == CHOOSE k \in NamedCards : \A m \in NamedCards : k <= m

\* areaName, else subzoneName, else "" of the first named card
FirstSubzone ==
    LET i == data.cards[FirstNamed].info
    IN IF i.areaName \notin {"", None} THEN i.areaName
       ELSE IF i.subzoneName \notin {"", None} THEN i.subzoneName
       ELSE ""

\* C9: every dish record of parse_menu_from_data and every offer record of
\* extract_offers_from_data carries the restaurant name and subzone of the first
\* top-level card, in document order, whose restaurant info has a non-empty name;
\* when no card has such info, the records carry no restaurant (None for a dish,
\* "" for an offer) and an empty subzone.
C9_FirstNamedCardWins ==
    (pc = "parse_done" /\ data.shape = "cards") =>
        /\ \A d \in Range(menuOut.ret) :
              IF NamedCards = {}
              THEN d.restaurant = None /\ d.subzone = ""
              ELSE /\ d.restaurant = data.cards[FirstNamed].info.name
                   /\ d.subzone = FirstSubzone
        /\ \A o \in Range(offersOut.ret) :
              IF NamedCards = {}
              THEN o.restaurant = "" /\ o.subzone = ""
              ELSE /\ o.restaurant = data.cards[FirstNamed].info.name
                   /\ o.subzone = FirstSubzone

\* Two cards name different restaurants, and a dish and an offer were parsed.
C9_Witness ==
    /\ pc = "parse_done"
    /\ data.shape = "cards"
    /\ \E i, j \in NamedCards :
          i < j /\ data.cards[i].info.name # data.cards[j].info.name
    /\ menuOut.ret # <<>>
    /\ offersOut.ret # <<>>

----------------------------------------------------------------------------
(* Claims about flatten_items_with_variants (SpecFlatten) *)

Max(a, b) == IF a >= b THEN a ELSE b

RECURSIVE Sum(_)
Sum(s) == IF s = <<>> THEN 0 ELSE Head(s) + Sum(Tail(s))

\* The variants a dish record holds.
VariantsOf(d) == IF "variants" \in DOMAIN d THEN d.variants ELSE <<>>

\* The rows a dish is expected to give: one per variant, in variant order, each
\* with the dish's fields and that variant's five fields; one row with the five
\* fields None when it holds no variant.
ExpectedRows(d) ==
    LET dish == [f \in DOMAIN d \ {"variants"} |-> d[f]]
        vs == VariantsOf(d)
    IN [j \in 1..Max(1, Len(vs)) |->
           [f \in DOMAIN dish \cup VariantFields |->
               IF f \notin VariantFields THEN dish[f]
               ELSE IF vs = <<>> THEN NoneF ELSE Some(vs[j][f])]]

\* C4: flatten_items_with_variants returns exactly sum over the dishes of
\* max(1, number of variants) rows, in dish order and variant order: a dish with
\* N >= 1 variants yields N rows each carrying one variant's fields, a dish with
\* no variants exactly one row whose five variant fields are None.
C4_RowPerVariant ==
    pc \in {"flat_once", "flat_twice"} =>
        /\ Len(flat_rows) =
               Sum([k \in 1..Len(items0) |-> Max(1, Len(VariantsOf(items0[k])))])
        /\ flat_rows = Concat([k \in 1..Len(items0) |-> ExpectedRows(items0[k])])

\* A list with a dish of several variants and a dish of none was flattened.
C4_Witness ==
    /\ pc = "flat_once"
    /\ \E i, j \in 1..Len(items0) :
          /\ Len(VariantsOf(items0[i])) >= 2
          /\ VariantsOf(items0[j]) = <<>>
    /\ Len(flat_rows) > Len(items0)

\* C10: flatten_items_with_variants never mutates its input: after the call every
\* input dish record is unchanged (it still holds its variant list), so calling
\* flatten twice on the same dish records returns the same rows both times, and
\* a caller that reads the dish records after flattening sees them as they were.
C10_InputUnchanged ==
    /\ pc \in {"flat_once", "flat_twice", "names_read"} =>
           /\ items = items0
           /\ \A k \in 1..Len(items) : "variants" \in DOMAIN items[k]
    /\ pc = "flat_twice" => flat_rows = flat_first

----------------------------------------------------------------------------
(* Claims about compare_offers (SpecCompare) *)

\* compare_offers reached its reconciliation step: the sheet was read as a table
\* with its title and code columns.
Reconciled == pc = "compare_done" /\ df_ref.shape = "table"

\* A reference row and a scraped offer have equal (title, code) after trimming
\* the surrounding whitespace on both sides; an empty reference cell equals
\* no text.
SameKey(ref_row, offer) ==
    /\ ref_row.title.t = "str" /\ Strip(ref_row.title.s) = Strip(offer.title)
    /\ ref_row.code.t = "str" /\ Strip(ref_row.code.s) = Strip(offer.code)

\* The same with the cells converted to text first, as astype(str) does: an empty
\* reference cell is the text "nan".
SameTextKey(ref_row, offer) ==
    /\ Strip(AsStr(ref_row.title)) = Strip(offer.title)
    /\ Strip(AsStr(ref_row.code)) = Strip(offer.code)

\* An offer with its title and code trimmed.
Trimmed(offer) == [offer EXCEPT !.title = Strip(offer.title), !.code = Strip(offer.code)]

====
